---- MODULE Spec2Model ----
(***************************************************************************)
(* A model of moneykit: the calculator (calculator.go), the Money value    *)
(* type with its currency guard, Split, Allocate and Round, and the        *)
(* currency registry consulted by New (currency.go).                       *)
(*                                                                         *)
(* Amount is int64 in the source.  The model keeps two's-complement        *)
(* wraparound but at a reduced width of IntBits bits, so that MinInt64 and *)
(* MaxInt64 below are the scaled-down extremes of the Amount type.         *)
(***************************************************************************)
EXTENDS Integers, Sequences, FiniteSets, TLC

\* ------------------------------------------------------------------------
\* Bounds of the model
\* ------------------------------------------------------------------------

\* width, in bits, of the model's Amount (int64 in the source)
IntBits == 20

\* largest n passed to Split
MaxParts == 4

\* largest precision passed to calculator.round
MaxPrecision == 3

\* largest ratio of the exhaustively enumerated ratio lists
MaxSmallRatio == 3

\* ------------------------------------------------------------------------
\* Machine integers
\* ------------------------------------------------------------------------

Modulus == 2 ^ IntBits

MaxInt64 == 2 ^ (IntBits - 1) - 1

MinInt64 == -(2 ^ (IntBits - 1))

\* two's-complement wraparound of a mathematical integer
Wrap(x) == ((x - MinInt64) % Modulus) + MinInt64

\* the unsigned bit pattern of a signed value
Unsigned(x) == x % Modulus

\* a * b modulo 2^IntBits over bit patterns, 8 bits of b at a time so that
\* no intermediate value leaves the range of the checker's integers
RECURSIVE MulU(_, _)
MulU(a, b) ==
    IF b = 0 THEN 0
    ELSE (a * (b % 256) + 256 * MulU(a, b \div 256)) % Modulus

Abs(x) == IF x < 0 THEN -x ELSE x

\* Go's / on int64: truncates toward zero; MinInt64 / -1 wraps to MinInt64
Quot(a, d) ==
    Wrap(IF (a < 0) = (d < 0) THEN Abs(a) \div Abs(d) ELSE -(Abs(a) \div Abs(d)))

\* Go's % on int64: the sign follows the dividend
Rem(a, d) ==
    IF a < 0 THEN -(Abs(a) % Abs(d)) ELSE a % Abs(d)

\* int64(math.Pow(10, float64(precision))) for 0 <= precision <= MaxPrecision
RECURSIVE Pow10(_)
Pow10(p) == IF p = 0 THEN 1 ELSE 10 * Pow10(p - 1)

\* ------------------------------------------------------------------------
\* calculator.go
\* ------------------------------------------------------------------------

\* mutant of add: a sum beyond int64 stops at the nearest bound
addSaturating(a, b) ==
    IF a + b > MaxInt64 THEN MaxInt64
    ELSE IF a + b < MinInt64 THEN MinInt64
    ELSE a + b

add(a, b) == Wrap(a + b)

subtract(a, b) == Wrap(a - b)

multiply(a, m) == Wrap(MulU(Unsigned(a), Unsigned(m)))

\* mutant of divide: the quotient rounded down instead of toward zero
divideFloor(a, d) == Wrap(IF d > 0 THEN a \div d ELSE (-a) \div (-d))

\* defined for d # 0; a zero divisor panics (see the callers)
divide(a, d) == Quot(a, d)

\* mutant of modulus: the remainder never negative instead of following the
\* sign of the dividend
modulusNonNegative(a, d) == a % Abs(d)

modulus(a, d) == Rem(a, d)

\* mutant of allocate: the division made before the multiplication
allocateDivideFirst(a, r, s) ==
    IF a = 0 \/ s = 0 THEN 0
    ELSE multiply(Quot(a, s), r)

allocate(a, r, s) ==
    IF a = 0 \/ s = 0 THEN 0
    ELSE Quot(multiply(a, r), s)

\* mutant of DivideOutcome: a zero divisor is reported as an error value
DivideOutcomeWithError(a, d) ==
    IF d = 0
    THEN [status |-> "error", err |-> "division by zero", i |-> 0]
    ELSE [status |-> "ok", err |-> "", i |-> divide(a, d)]

\* a call of divide: a / Amount(d) panics at run time when d is 0
DivideOutcome(a, d) ==
    IF d = 0
    THEN [status |-> "panic", err |-> "", i |-> 0]
    ELSE [status |-> "ok", err |-> "", i |-> divide(a, d)]

\* a call of modulus: a % Amount(d) panics at run time when d is 0
ModulusOutcome(a, d) ==
    IF d = 0
    THEN [status |-> "panic", err |-> "", i |-> 0]
    ELSE [status |-> "ok", err |-> "", i |-> modulus(a, d)]

absolute(a) == IF a < 0 THEN Wrap(-a) ELSE a

negative(a) == Wrap(-a)

\* mutant of round: a remainder of exactly half the factor rounds down
roundHalfDown(a, precision) ==
    IF a = 0 THEN 0
    ELSE LET absAmount == absolute(a)
             factor    == Pow10(precision)
             remainder == Rem(absAmount, factor)
             bumped    == IF remainder > Quot(factor, 2)
                          THEN Wrap(absAmount + factor)
                          ELSE absAmount
             rounded   == multiply(Quot(bumped, factor), factor)
         IN  IF a < 0 THEN Wrap(-rounded) ELSE rounded

round(a, precision) ==
    IF a = 0 THEN 0
    ELSE LET absAmount == absolute(a)
             factor    == Pow10(precision)
             remainder == Rem(absAmount, factor)
             bumped    == IF remainder >= Quot(factor, 2)
                          THEN Wrap(absAmount + factor)
                          ELSE absAmount
             rounded   == multiply(Quot(bumped, factor), factor)
         IN  IF a < 0 THEN Wrap(-rounded) ELSE rounded

\* ------------------------------------------------------------------------
\* currency.go: the registry and the lookup New makes
\* ------------------------------------------------------------------------

\* strings.ToUpper on the code strings the model passes
ToUpper(code) ==
    CASE code = "usd" -> "USD"
      [] code = "eur" -> "EUR"
      [] code = "xts" -> "XTS"
      [] OTHER -> code

\* the entries of the built-in table the model keeps: Code and Fraction
BuiltinCurrencies ==
    [code \in {"USD", "EUR", "JPY", "BHD"} |->
        [Code |-> code,
         Fraction |-> CASE code = "JPY" -> 0
                        [] code = "BHD" -> 3
                        [] OTHER -> 2]]

VARIABLES
    currencies,  \* the package-level registry: code -> Currency
    m,           \* the receiver: a Money [amount, currency]
    oms,         \* the operands of the call in progress, as the call left them
    call,        \* the call in progress: [op, recv, oms, args] as passed
    ret,         \* what the call returned:
                 \*   [status, err, ms, b, i, self, reads, cur]
    adding       \* the Currency another goroutine's AddCurrency is storing
                 \* into the registry map at this moment, <<>> when none is

vars == <<currencies, m, oms, call, ret, adding>>

\* Currencies.Add: c[currency.Code] = currency
CurrenciesAdd(c, currency) ==
    [k \in DOMAIN c \cup {currency.Code} |->
        IF k = currency.Code THEN currency ELSE c[k]]

newCurrency(code) == [Code |-> ToUpper(code), Fraction |-> 0]

getDefault(c) == [Code |-> c.Code, Fraction |-> 2]

get(c) ==
    IF c.Code \in DOMAIN currencies THEN currencies[c.Code] ELSE getDefault(c)

\* mutant of equals: the two Currency values are compared as a whole
equalsWhole(c, oc) == c = oc

equals(c, oc) == c.Code = oc.Code

\* ------------------------------------------------------------------------
\* Money (src/unnamed/part_001)
\* ------------------------------------------------------------------------

nil == ""

\* where no *Currency is returned, and what a nil *Currency stands for
NoCurrency == [Code |-> "", Fraction |-> 0]

ErrCurrencyMismatch == "currencies don't match"

New(amount, code) == [amount |-> amount, currency |-> get(newCurrency(code))]

\* the outcome of a call: normal return (with or without error) or a panic
Ok(ms, b, i) ==
    [status |-> "ok", err |-> nil, ms |-> ms, b |-> b, i |-> i, self |-> FALSE,
     reads |-> FALSE, cur |-> NoCurrency]

\* "return m, nil": the Money returned is the receiver itself, not a new one
OkReceiver(recv) == [Ok(<<recv>>, FALSE, 0) EXCEPT !.self = TRUE]

Fail(err, b, i) ==
    [status |-> "error", err |-> err, ms |-> <<>>, b |-> b, i |-> i,
     self |-> FALSE, reads |-> FALSE, cur |-> NoCurrency]

Panic ==
    [status |-> "panic", err |-> nil, ms |-> <<>>, b |-> FALSE, i |-> 0,
     self |-> FALSE, reads |-> FALSE, cur |-> NoCurrency]

NoRet ==
    [status |-> "none", err |-> nil, ms |-> <<>>, b |-> FALSE, i |-> 0,
     self |-> FALSE, reads |-> FALSE, cur |-> NoCurrency]

\* a method's effect: the receiver and operands after it, and what it returned
Out(recv, operands, r) == [m |-> recv, oms |-> operands, ret |-> r]

\* the effect of a method on a path that has called New, and through it
\* Currency.get, which reads the registry map
OutAfterNew(recv, operands, r) ==
    Out(recv, operands, [r EXCEPT !.reads = TRUE])

SameCurrency(recv, om) == equals(recv.currency, om.currency)

\* mutant of assertSameCurrency: the currencies are never compared
assertSameCurrencyUnchecked(recv, om) == nil

assertSameCurrency(recv, om) ==
    IF ~SameCurrency(recv, om) THEN ErrCurrencyMismatch ELSE nil

compare(recv, om) ==
    CASE recv.amount > om.amount -> 1
      [] recv.amount < om.amount -> -1
      [] OTHER -> 0

Equals(recv, om) ==
    IF assertSameCurrency(recv, om) # nil
    THEN Out(recv, <<om>>, Fail(assertSameCurrency(recv, om), FALSE, 0))
    ELSE Out(recv, <<om>>, Ok(<<>>, compare(recv, om) = 0, 0))

GreaterThan(recv, om) ==
    IF assertSameCurrency(recv, om) # nil
    THEN Out(recv, <<om>>, Fail(assertSameCurrency(recv, om), FALSE, 0))
    ELSE Out(recv, <<om>>, Ok(<<>>, compare(recv, om) = 1, 0))

GreaterThanOrEqual(recv, om) ==
    IF assertSameCurrency(recv, om) # nil
    THEN Out(recv, <<om>>, Fail(assertSameCurrency(recv, om), FALSE, 0))
    ELSE Out(recv, <<om>>, Ok(<<>>, compare(recv, om) >= 0, 0))

LessThan(recv, om) ==
    IF assertSameCurrency(recv, om) # nil
    THEN Out(recv, <<om>>, Fail(assertSameCurrency(recv, om), FALSE, 0))
    ELSE Out(recv, <<om>>, Ok(<<>>, compare(recv, om) = -1, 0))

LessThanOrEqual(recv, om) ==
    IF assertSameCurrency(recv, om) # nil
    THEN Out(recv, <<om>>, Fail(assertSameCurrency(recv, om), FALSE, 0))
    ELSE Out(recv, <<om>>, Ok(<<>>, compare(recv, om) <= 0, 0))

\* on a mismatch Compare returns int(m.amount) beside the error
Compare(recv, om) ==
    IF assertSameCurrency(recv, om) # nil
    THEN Out(recv, <<om>>, Fail(assertSameCurrency(recv, om), FALSE, recv.amount))
    ELSE Out(recv, <<om>>, Ok(<<>>, FALSE, compare(recv, om)))

\* mutant of SumOperands: an operand of another currency is left out of the
\* sum and the loop goes on
RECURSIVE SumOperandsSkipping(_, _, _, _)
SumOperandsSkipping(recv, ms, i, k) ==
    IF i > Len(ms) THEN [err |-> nil, k |-> k]
    ELSE IF assertSameCurrency(recv, ms[i]) # nil
         THEN SumOperandsSkipping(recv, ms, i + 1, k)
         ELSE SumOperandsSkipping(recv, ms, i + 1,
                          [k EXCEPT !.amount = add(k.amount, ms[i].amount)])

\* the loop of Add and Subtract over the operands: k accumulates their sum
\* and the first operand of another currency ends the call
RECURSIVE SumOperands(_, _, _, _)
SumOperands(recv, ms, i, k) ==
    IF i > Len(ms) THEN [err |-> nil, k |-> k]
    ELSE IF assertSameCurrency(recv, ms[i]) # nil
         THEN [err |-> assertSameCurrency(recv, ms[i]), k |-> k]
         ELSE SumOperands(recv, ms, i + 1,
                          [k EXCEPT !.amount = add(k.amount, ms[i].amount)])

\* with no operand Add returns the receiver itself
Add(recv, ms) ==
    IF Len(ms) = 0 THEN Out(recv, ms, OkReceiver(recv))
    ELSE LET loop == SumOperands(recv, ms, 1, New(0, recv.currency.Code))
         IN  IF loop.err # nil
             THEN OutAfterNew(recv, ms, Fail(loop.err, FALSE, 0))
             ELSE OutAfterNew(recv, ms,
                      Ok(<<[amount |-> add(recv.amount, loop.k.amount),
                            currency |-> recv.currency]>>, FALSE, 0))

Subtract(recv, ms) ==
    IF Len(ms) = 0 THEN Out(recv, ms, OkReceiver(recv))
    ELSE LET loop == SumOperands(recv, ms, 1, New(0, recv.currency.Code))
         IN  IF loop.err # nil
             THEN OutAfterNew(recv, ms, Fail(loop.err, FALSE, 0))
             ELSE OutAfterNew(recv, ms,
                      Ok(<<[amount |-> subtract(recv.amount, loop.k.amount),
                            currency |-> recv.currency]>>, FALSE, 0))

\* mutant of Round: the Money is built without its currency field
RoundWithoutCurrency(recv) ==
    Out(recv, <<>>,
        Ok(<<[amount |-> round(recv.amount, recv.currency.Fraction),
              currency |-> [Code |-> "", Fraction |-> 0]]>>, FALSE, 0))

Round(recv) ==
    Out(recv, <<>>,
        Ok(<<[amount |-> round(recv.amount, recv.currency.Fraction),
              currency |-> recv.currency]>>, FALSE, 0))

Absolute(recv) ==
    Out(recv, <<>>,
        Ok(<<[amount |-> absolute(recv.amount), currency |-> recv.currency]>>,
           FALSE, 0))

Negative(recv) ==
    Out(recv, <<>>,
        Ok(<<[amount |-> negative(recv.amount), currency |-> recv.currency]>>,
           FALSE, 0))

\* the loop of Multiply over the multipliers: k accumulates their product
RECURSIVE MultiplyAll(_, _, _)
MultiplyAll(muls, i, k) ==
    IF i > Len(muls) THEN k
    ELSE MultiplyAll(muls, i + 1,
                     [k EXCEPT !.amount = multiply(k.amount, muls[i])])

\* mutant of Multiply: the accumulator starts at 0, as the one of Add does
MultiplyFromZero(recv, muls) ==
    IF Len(muls) = 0 THEN Out(recv, <<>>, Panic)
    ELSE LET k == MultiplyAll(muls, 1, New(0, recv.currency.Code))
         IN  OutAfterNew(recv, <<>>,
                 Ok(<<[amount |-> multiply(recv.amount, k.amount),
                       currency |-> recv.currency]>>, FALSE, 0))

\* with no multiplier Multiply panics
Multiply(recv, muls) ==
    IF Len(muls) = 0 THEN Out(recv, <<>>, Panic)
    ELSE LET k == MultiplyAll(muls, 1, New(1, recv.currency.Code))
         IN  OutAfterNew(recv, <<>>,
                 Ok(<<[amount |-> multiply(recv.amount, k.amount),
                       currency |-> recv.currency]>>, FALSE, 0))

\* mutant of SplitLeftover: the whole remainder goes to the first part
SplitLeftoverToFirst(ms, l, v, p) ==
    IF l = 0 THEN [panic |-> FALSE, ms |-> ms]
    ELSE [panic |-> FALSE,
          ms |-> [ms EXCEPT ![1].amount = Wrap(@ + v * l)]]

\* the loop "for p := 0; l != 0; p++" of Split: ms[p] of a p past the last
\* part is an index out of range, which panics
RECURSIVE SplitLeftover(_, _, _, _)
SplitLeftover(ms, l, v, p) ==
    IF l = 0 THEN [panic |-> FALSE, ms |-> ms]
    ELSE IF p >= Len(ms) THEN [panic |-> TRUE, ms |-> ms]
    ELSE SplitLeftover([ms EXCEPT ![p + 1].amount = add(@, v)],
                       Wrap(l - 1), v, p + 1)

\* Split past its guard; the division by a zero n panics, and so does
\* make([]*Money, n) of a negative n
SplitParts(recv, n) ==
    IF n <= 0 THEN Out(recv, <<>>, Panic)
    ELSE LET a    == divide(recv.amount, n)
             ms   == [i \in 1..n |-> [amount |-> a, currency |-> recv.currency]]
             r    == modulus(recv.amount, n)
             l    == absolute(r)
             v    == IF recv.amount < 0 THEN -1 ELSE 1
             loop == SplitLeftover(ms, l, v, 0)
         IN  IF loop.panic THEN Out(recv, <<>>, Panic)
             ELSE Out(recv, <<>>, Ok(loop.ms, FALSE, 0))

\* mutant of Split: the count of parts is not tested
SplitUnguarded(recv, n) == SplitParts(recv, n)

Split(recv, n) ==
    IF n <= 0
    THEN Out(recv, <<>>, Fail("split must be higher than zero", FALSE, 0))
    ELSE SplitParts(recv, n)

\* mutant of RatioSum: the running sum is not tested against MaxInt64
RECURSIVE RatioSumUnchecked(_, _, _)
RatioSumUnchecked(rs, i, sum) ==
    IF i > Len(rs) THEN [err |-> nil, sum |-> sum]
    ELSE IF rs[i] < 0
         THEN [err |-> "negative ratios not allowed", sum |-> sum]
    ELSE RatioSumUnchecked(rs, i + 1, Wrap(sum + rs[i]))

\* the first loop of Allocate: the sum of the ratios, or the first error
RECURSIVE RatioSum(_, _, _)
RatioSum(rs, i, sum) ==
    IF i > Len(rs) THEN [err |-> nil, sum |-> sum]
    ELSE IF rs[i] < 0
         THEN [err |-> "negative ratios not allowed", sum |-> sum]
    ELSE IF rs[i] > MaxInt64 - sum
         THEN [err |-> "sum of given ratios exceeds max int", sum |-> sum]
    ELSE RatioSum(rs, i + 1, Wrap(sum + rs[i]))

\* mutant of PartyTotal: each party's amount replaces the total instead of
\* being added to it
RECURSIVE PartyTotalLast(_, _, _)
PartyTotalLast(ms, i, total) ==
    IF i > Len(ms) THEN total
    ELSE PartyTotalLast(ms, i + 1, ms[i].amount)

\* the second loop of Allocate: total += party.amount
RECURSIVE PartyTotal(_, _, _)
PartyTotal(ms, i, total) ==
    IF i > Len(ms) THEN total
    ELSE PartyTotal(ms, i + 1, Wrap(total + ms[i].amount))

\* mutant of AllocateLeftover: the leftover goes to the last parties first
RECURSIVE AllocateLeftoverFromLast(_, _, _, _)
AllocateLeftoverFromLast(ms, lo, sub, p) ==
    IF lo = 0 THEN [panic |-> FALSE, ms |-> ms]
    ELSE IF p >= Len(ms) THEN [panic |-> TRUE, ms |-> ms]
    ELSE AllocateLeftoverFromLast(
             [ms EXCEPT ![Len(ms) - p].amount = add(@, sub)],
             Wrap(lo - sub), sub, p + 1)

\* the loop "for p := 0; lo != 0; p++" of Allocate: ms[p] of a p past the
\* last part is an index out of range, which panics
RECURSIVE AllocateLeftover(_, _, _, _)
AllocateLeftover(ms, lo, sub, p) ==
    IF lo = 0 THEN [panic |-> FALSE, ms |-> ms]
    ELSE IF p >= Len(ms) THEN [panic |-> TRUE, ms |-> ms]
    ELSE AllocateLeftover([ms EXCEPT ![p + 1].amount = add(@, sub)],
                          Wrap(lo - sub), sub, p + 1)

\* mutant of Allocate: a ratio sum of zero does not end the call before the
\* leftover is handed out
AllocateWithoutZeroSumReturn(recv, rs) ==
    IF Len(rs) = 0
    THEN Out(recv, <<>>, Fail("no ratios specified", FALSE, 0))
    ELSE LET sums == RatioSum(rs, 1, 0)
             sum  == sums.sum
             ms   == [i \in 1..Len(rs) |->
                         [amount   |-> allocate(recv.amount, rs[i], sum),
                          currency |-> recv.currency]]
             total == PartyTotal(ms, 1, 0)
             lo   == Wrap(recv.amount - total)
             sub  == IF lo < 0 THEN -1 ELSE 1
             loop == AllocateLeftover(ms, lo, sub, 0)
         IN  IF sums.err # nil THEN Out(recv, <<>>, Fail(sums.err, FALSE, 0))
             ELSE IF loop.panic THEN Out(recv, <<>>, Panic)
             ELSE Out(recv, <<>>, Ok(loop.ms, FALSE, 0))

Allocate(recv, rs) ==
    IF Len(rs) = 0
    THEN Out(recv, <<>>, Fail("no ratios specified", FALSE, 0))
    ELSE LET sums == RatioSum(rs, 1, 0)
             sum  == sums.sum
             ms   == [i \in 1..Len(rs) |->
                         [amount   |-> allocate(recv.amount, rs[i], sum),
                          currency |-> recv.currency]]
             total == PartyTotal(ms, 1, 0)
             lo   == Wrap(recv.amount - total)
             sub  == IF lo < 0 THEN -1 ELSE 1
             loop == AllocateLeftover(ms, lo, sub, 0)
         IN  IF sums.err # nil THEN Out(recv, <<>>, Fail(sums.err, FALSE, 0))
             ELSE IF sum = 0 THEN Out(recv, <<>>, Ok(ms, FALSE, 0))
             ELSE IF loop.panic THEN Out(recv, <<>>, Panic)
             ELSE Out(recv, <<>>, Ok(loop.ms, FALSE, 0))

\* ------------------------------------------------------------------------
\* Database scanning (src/db.go)
\* ------------------------------------------------------------------------

DBMoneyValueSeparator == "|"

CurrencyByCode(code) ==
    IF code \in DOMAIN currencies
    THEN [found |-> TRUE, c |-> currencies[code]]
    ELSE [found |-> FALSE, c |-> [Code |-> "", Fraction |-> 0]]

GetCurrency(code) == CurrencyByCode(ToUpper(code))

\* A string is a sequence of tokens, each the separator or a text without
\* it, no two texts adjacent.  strings.Split gives the texts between the
\* separators, "" where nothing stands between them.
RECURSIVE StringsSplit(_, _, _, _)
StringsSplit(s, sep, i, cur) ==
    IF i > Len(s) THEN <<cur>>
    ELSE IF s[i] = sep THEN <<cur>> \o StringsSplit(s, sep, i + 1, "")
    ELSE StringsSplit(s, sep, i + 1, s[i])

\* strconv.ParseInt(s, 10, 64) on the texts the model draws
ParseInt(s) ==
    CASE s = "7"   -> [err |-> nil, a |-> 7]
      [] s = "-12" -> [err |-> nil, a |-> -12]
      [] OTHER     -> [err |-> "invalid syntax", a |-> 0]

\* Currency.Scan of a text: a copy of the registered currency
CurrencyScan(s) ==
    LET val == GetCurrency(s)
    IN  IF ~val.found
        THEN [err |-> "GetCurrency returned nil", c |-> val.c]
        ELSE [err |-> nil, c |-> val.c]

\* mutant of Scan: the amount is stored as soon as it is parsed, before
\* the currency is looked up
ScanAmountFirst(recv, src) ==
    IF src.type # "string"
    THEN [m |-> recv, err |-> "don't know how to scan into Money"]
    ELSE LET parts == StringsSplit(src.s, DBMoneyValueSeparator, 1, "")
         IN  IF Len(parts) # 2 \/ parts[1] = "" \/ parts[2] = ""
             THEN [m |-> recv, err |-> "is not valid to scan into Money"]
             ELSE IF ParseInt(parts[1]).err # nil
             THEN [m |-> recv, err |-> "scanning into an Amount"]
             ELSE IF CurrencyScan(parts[2]).err # nil
             THEN [m |-> [recv EXCEPT !.amount = ParseInt(parts[1]).a],
                   err |-> "scanning into a Currency"]
             ELSE [m |-> [amount |-> ParseInt(parts[1]).a,
                          currency |-> CurrencyScan(parts[2]).c],
                   err |-> nil]

\* Money.Scan: on success the Money is overwritten in place
Scan(recv, src) ==
    IF src.type # "string"
    THEN [m |-> recv, err |-> "don't know how to scan into Money"]
    ELSE LET parts == StringsSplit(src.s, DBMoneyValueSeparator, 1, "")
         IN  IF Len(parts) # 2 \/ parts[1] = "" \/ parts[2] = ""
             THEN [m |-> recv, err |-> "is not valid to scan into Money"]
             ELSE IF ParseInt(parts[1]).err # nil
             THEN [m |-> recv, err |-> "scanning into an Amount"]
             ELSE IF CurrencyScan(parts[2]).err # nil
             THEN [m |-> recv, err |-> "scanning into a Currency"]
             ELSE [m |-> [amount |-> ParseInt(parts[1]).a,
                          currency |-> CurrencyScan(parts[2]).c],
                   err |-> nil]

\* ------------------------------------------------------------------------

\* The inputs the model draws
\* ------------------------------------------------------------------------

\* longest ratio list of the exhaustively enumerated ratio lists
MaxRatios == 3

\* most operands passed to Add and Subtract
MaxOperands == 2

Amounts ==
    {MinInt64, MinInt64 + 1, -1000, -100, -7, -1, 0, 1, 5, 7, 100, 1000,
     1234, 1235, 10000, MaxInt64 - 1, MaxInt64}

Codes == {"USD", "EUR", "JPY", "BHD", "XTS", "usd"}

CustomCodes == {"XTS", "xts"}

\* the codes GetCurrency is asked for
LookupCodes == {"USD", "usd", "XTS", "xts", "ZZZ"}

CustomFractions == {1}

SplitCounts == -1..MaxParts

Divisors == {-3, -1, 0, 1, 3}

Precisions == 0..MaxPrecision

SeqsUpTo(S, n) == UNION {[1..k -> S] : k \in 0..n}

RatioLists ==
    SeqsUpTo(0..MaxSmallRatio, MaxRatios)
        \cup {<<50, 30, 20>>, <<33, 33, 33>>, <<1, -1>>, <<-1, 1>>,
              <<MaxInt64>>, <<MaxInt64, 1>>, <<1, MaxInt64 - 1>>,
              <<MaxInt64, 1, -1>>, <<MaxInt64, -1, 1>>, <<-1, MaxInt64, 1>>}

\* the operands of a call are built by New at the time of the call, from
\* codes in either letter case and from a code that may not be registered
OperandCodes == {"USD", "usd", "EUR", "XTS"}

Operands == {New(a, c) : a \in {-3, 5, MaxInt64}, c \in OperandCodes}

\* values read from a database column
ScanSources ==
    {[type |-> "string", s |-> <<"7", "|", "EUR">>],
     [type |-> "string", s |-> <<"-12", "|", "usd">>],
     [type |-> "string", s |-> <<"7", "|", "XTS">>],
     [type |-> "string", s |-> <<"7">>],
     [type |-> "string", s |-> <<"|", "EUR">>],
     [type |-> "string", s |-> <<"x", "|", "EUR">>],
     [type |-> "string", s |-> <<"7", "|", "EUR", "|">>],
     [type |-> "string", s |-> <<"7", "|", "xts">>],
     [type |-> "string", s |-> <<"7", "|", "ZZZ">>],
     [type |-> "string", s |-> <<"EUR", "|", "7">>],
     [type |-> "string", s |-> <<>>],
     [type |-> "int64", s |-> <<>>]}

OperandLists == SeqsUpTo(Operands, MaxOperands)

MaxMultipliers == 2
Multipliers == {-1, 0, 2, 3, 1000}
MultiplierLists == SeqsUpTo(Multipliers, MaxMultipliers)

\* ------------------------------------------------------------------------
\* The state machine: a client constructs a receiver, calls one operation
\* at a time and takes its result
\* ------------------------------------------------------------------------

Idle == [op |-> "idle", recv |-> m, oms |-> <<>>, args |-> <<>>]

Calling(op, operands, args) ==
    [op |-> op, recv |-> m, oms |-> operands, args |-> args]

Init ==
    /\ currencies = BuiltinCurrencies
    /\ \E amount \in Amounts, code \in Codes : m = New(amount, code)
    /\ oms = <<>>
    /\ call = [op |-> "idle", recv |-> m, oms |-> <<>>, args |-> <<>>]
    /\ ret = NoRet
    /\ adding = <<>>

\* A call that reads the registry map while another goroutine writes it is
\* a data race: it may go through, or the Go runtime may stop the process
\* ("fatal error: concurrent map read and map write").
Fatal == [Panic EXCEPT !.status = "fatal", !.reads = TRUE]

Outcomes(r) == IF adding # <<>> /\ r.reads THEN {r, Fatal} ELSE {r}

\* the effect of a method call on the state
Effect(op, operands, args, out) ==
    /\ m' = out.m
    /\ oms' = out.oms
    /\ call' = Calling(op, operands, args)
    /\ ret' \in Outcomes(out.ret)
    /\ UNCHANGED <<currencies, adding>>

CallNew ==
    /\ call.op = "idle"
    /\ \E amount \in Amounts, code \in Codes :
          /\ m' = New(amount, code)
          /\ call' = [op |-> "idle", recv |-> m', oms |-> <<>>, args |-> <<>>]
    /\ UNCHANGED <<currencies, oms, ret, adding>>

CallAddCurrency ==
    /\ call.op = "idle"
    /\ adding = <<>>
    /\ \E code \in CustomCodes, fraction \in CustomFractions :
          currencies' = CurrenciesAdd(currencies,
                                      [Code |-> code, Fraction |-> fraction])
    /\ UNCHANGED <<m, oms, call, ret, adding>>

\* GetCurrency(code): ret.b tells whether the *Currency returned is non-nil,
\* ret.cur is the Currency it points to
CallGetCurrency ==
    /\ call.op = "idle"
    /\ \E code \in LookupCodes :
          Effect("GetCurrency", <<>>, <<code>>,
                 Out(m, <<>>,
                     [Ok(<<>>, GetCurrency(code).found, 0)
                         EXCEPT !.reads = TRUE,
                                !.cur = GetCurrency(code).c]))

\* Another goroutine calls AddCurrency: it builds the Currency and enters
\* the map assignment of Currencies.Add, which no lock protects ...
GoAddCurrencyBegin ==
    /\ adding = <<>>
    /\ \E code \in CustomCodes, fraction \in CustomFractions :
          adding' = <<[Code |-> code, Fraction |-> fraction]>>
    /\ UNCHANGED <<currencies, m, oms, call, ret>>

\* ... and leaves it with the Currency stored
GoAddCurrencyEnd ==
    /\ adding # <<>>
    /\ currencies' = CurrenciesAdd(currencies, adding[1])
    /\ adding' = <<>>
    /\ UNCHANGED <<m, oms, call, ret>>

CallEquals ==
    /\ call.op = "idle"
    /\ \E om \in Operands : Effect("Equals", <<om>>, <<>>, Equals(m, om))

CallSameCurrency ==
    /\ call.op = "idle"
    /\ \E om \in Operands :
          Effect("SameCurrency", <<om>>, <<>>,
                 Out(m, <<om>>, Ok(<<>>, SameCurrency(m, om), 0)))

CallCompare ==
    /\ call.op = "idle"
    /\ \E om \in Operands : Effect("Compare", <<om>>, <<>>, Compare(m, om))

CallGreaterThan ==
    /\ call.op = "idle"
    /\ \E om \in Operands :
          Effect("GreaterThan", <<om>>, <<>>, GreaterThan(m, om))

CallGreaterThanOrEqual ==
    /\ call.op = "idle"
    /\ \E om \in Operands :
          Effect("GreaterThanOrEqual", <<om>>, <<>>, GreaterThanOrEqual(m, om))

CallLessThan ==
    /\ call.op = "idle"
    /\ \E om \in Operands : Effect("LessThan", <<om>>, <<>>, LessThan(m, om))

CallLessThanOrEqual ==
    /\ call.op = "idle"
    /\ \E om \in Operands :
          Effect("LessThanOrEqual", <<om>>, <<>>, LessThanOrEqual(m, om))

CallAdd ==
    /\ call.op = "idle"
    /\ \E ms \in OperandLists : Effect("Add", ms, <<>>, Add(m, ms))

CallSubtract ==
    /\ call.op = "idle"
    /\ \E ms \in OperandLists : Effect("Subtract", ms, <<>>, Subtract(m, ms))

CallMultiply ==
    /\ call.op = "idle"
    /\ \E muls \in MultiplierLists :
          Effect("Multiply", <<>>, muls, Multiply(m, muls))

CallAbsolute ==
    /\ call.op = "idle"
    /\ Effect("Absolute", <<>>, <<>>, Absolute(m))

CallNegative ==
    /\ call.op = "idle"
    /\ Effect("Negative", <<>>, <<>>, Negative(m))

CallRound ==
    /\ call.op = "idle"
    /\ Effect("Round", <<>>, <<>>, Round(m))

CallSplit ==
    /\ call.op = "idle"
    /\ \E n \in SplitCounts : Effect("Split", <<>>, <<n>>, Split(m, n))

CallAllocate ==
    /\ call.op = "idle"
    /\ \E rs \in RatioLists : Effect("Allocate", <<>>, rs, Allocate(m, rs))

\* a direct call of the calculator's divide(a, d)
CallCalcDivide ==
    /\ call.op = "idle"
    /\ \E a \in Amounts, d \in Divisors :
          Effect("divide", <<>>, <<a, d>>,
                 Out(m, <<>>,
                     [NoRet EXCEPT !.status = DivideOutcome(a, d).status,
                                   !.err = DivideOutcome(a, d).err,
                                   !.i = DivideOutcome(a, d).i]))

\* a direct call of the calculator's modulus(a, d)
CallCalcModulus ==
    /\ call.op = "idle"
    /\ \E a \in Amounts, d \in Divisors :
          Effect("modulus", <<>>, <<a, d>>,
                 Out(m, <<>>,
                     [NoRet EXCEPT !.status = ModulusOutcome(a, d).status,
                                   !.err = ModulusOutcome(a, d).err,
                                   !.i = ModulusOutcome(a, d).i]))

\* the operations that return Money
MoneyOps ==
    {"Add", "Subtract", "Multiply", "Absolute", "Negative", "Round", "Split",
     "Allocate"}

\* The caller scans a database value into one of the Money just returned.
\* A *Money is a pointer: when the call returned the receiver itself, the
\* receiver is overwritten with it.
CallScanResult ==
    /\ call.op \in MoneyOps
    /\ ret.status = "ok"
    /\ \E j \in 1..Len(ret.ms), src \in ScanSources :
          /\ ret' = [ret EXCEPT !.ms[j] = Scan(ret.ms[j], src).m]
          /\ m' = IF ret.self THEN Scan(ret.ms[j], src).m ELSE m
    /\ call' = [call EXCEPT !.op = "ScanResult"]
    /\ UNCHANGED <<currencies, oms, adding>>

\* Scan of a database value into the receiver
CallScan ==
    /\ call.op = "idle"
    /\ \E src \in ScanSources :
          Effect("Scan", <<>>, <<src>>,
                 Out(Scan(m, src).m, <<>>,
                     IF Scan(m, src).err = nil
                     THEN Ok(<<>>, FALSE, 0)
                     ELSE Fail(Scan(m, src).err, FALSE, 0)))

\* a direct call of the calculator's round(a, precision)
CallCalcRound ==
    /\ call.op = "idle"
    /\ \E a \in Amounts, precision \in Precisions :
          Effect("round", <<>>, <<a, precision>>,
                 Out(m, <<>>, Ok(<<>>, FALSE, round(a, precision))))

\* the client takes the result; the next call can start
Return ==
    /\ call.op # "idle"
    /\ call' = Idle
    /\ oms' = <<>>
    /\ ret' = NoRet
    /\ UNCHANGED <<currencies, m, adding>>

Next ==
    \/ CallNew
    \/ CallAddCurrency
    \/ CallGetCurrency
    \/ CallSameCurrency
    \/ CallEquals
    \/ CallCompare
    \/ CallGreaterThan
    \/ CallGreaterThanOrEqual
    \/ CallLessThan
    \/ CallLessThanOrEqual
    \/ CallAdd
    \/ CallSubtract
    \/ CallMultiply
    \/ CallAbsolute
    \/ CallNegative
    \/ CallRound
    \/ CallSplit
    \/ CallAllocate
    \/ CallScan
    \/ CallScanResult
    \/ CallCalcRound
    \/ CallCalcDivide
    \/ CallCalcModulus
    \/ Return

Spec == Init /\ [][Next]_vars

\* The operations on existing Money values, run while another goroutine
\* registers currencies
NextConcurrent ==
    \/ GoAddCurrencyBegin
    \/ GoAddCurrencyEnd
    \/ CallAdd
    \/ CallSubtract
    \/ CallMultiply
    \/ CallAbsolute
    \/ CallNegative
    \/ CallRound
    \/ CallSplit
    \/ CallAllocate
    \/ Return

SpecConcurrent == Init /\ [][NextConcurrent]_vars

\* ------------------------------------------------------------------------
\* Vocabulary of the properties: plain mathematics, independent of the
\* calculator's operators
\* ------------------------------------------------------------------------

AmountsOf(ms) == [i \in 1..Len(ms) |-> ms[i].amount]

RECURSIVE SumSeq(_)
SumSeq(xs) == IF Len(xs) = 0 THEN 0 ELSE Head(xs) + SumSeq(Tail(xs))

MaxOf(xs) == CHOOSE x \in {xs[i] : i \in 1..Len(xs)} :
                \A j \in 1..Len(xs) : xs[j] <= x

MinOf(xs) == CHOOSE x \in {xs[i] : i \in 1..Len(xs)} :
                \A j \in 1..Len(xs) : x <= xs[j]

\* the quotient x / d rounded toward zero, for d > 0
TruncDiv(x, d) == IF x < 0 THEN -((-x) \div d) ELSE x \div d

Sign(x) == IF x < 0 THEN -1 ELSE IF x > 0 THEN 1 ELSE 0

\* the mathematical product a * r lies in [MinInt64, MaxInt64], for r >= 0
ProductFits(a, r) ==
    \/ a = 0
    \/ r = 0
    \/ a > 0 /\ a <= MaxInt64 \div r
    \/ a < 0 /\ -a <= (MaxInt64 + 1) \div r

\* a non-empty list of non-negative ratios whose sum does not exceed MaxInt64
\* (decided without adding past MaxInt64)
RECURSIVE RatiosWithin(_, _)
RatiosWithin(rs, room) ==
    \/ Len(rs) = 0
    \/ Head(rs) >= 0 /\ Head(rs) <= room /\ RatiosWithin(Tail(rs), room - Head(rs))

ValidRatios(rs) ==
    /\ Len(rs) > 0
    /\ RatiosWithin(rs, MaxInt64)
    /\ SumSeq(rs) > 0

IsSplit == call.op = "Split" /\ call.args[1] > 0

IsAllocate == call.op = "Allocate" /\ ValidRatios(call.args)

\* ------------------------------------------------------------------------
\* Split
\* ------------------------------------------------------------------------

\* C1: for every amount and every n > 0, Split(n) returns without failure
\* exactly n parts whose amounts sum exactly to the original amount.
SplitConservation ==
    IsSplit =>
        /\ ret.status = "ok"
        /\ Len(ret.ms) = call.args[1]
        /\ SumSeq(AmountsOf(ret.ms)) = call.recv.amount

\* a split of the most negative amount three ways, which leaves a remainder
SplitConservationWitness ==
    /\ IsSplit
    /\ call.args[1] = 3
    /\ call.recv.amount = MinInt64
    /\ ret.status = "ok"
    /\ ret.ms[1].amount # ret.ms[3].amount

\* C4: the parts returned by Split(n), n > 0, differ by at most one unit:
\* max(parts) - min(parts) <= 1.
SplitFairness ==
    (IsSplit /\ ret.status = "ok") =>
        MaxOf(AmountsOf(ret.ms)) - MinOf(AmountsOf(ret.ms)) <= 1

\* a split whose largest and smallest parts differ by exactly one unit, with
\* more than one unit of remainder handed out
SplitFairnessWitness ==
    /\ IsSplit
    /\ call.args[1] = 4
    /\ call.recv.amount = 7
    /\ ret.status = "ok"
    /\ MaxOf(AmountsOf(ret.ms)) - MinOf(AmountsOf(ret.ms)) = 1

\* C5: Split(n) gives the remainder to the earliest parts: with
\* base = trunc(amount/n), leftover = |amount mod n| and step = +1 for
\* amount >= 0 else -1, parts 0..leftover-1 are base+step and the later ones
\* base; an earlier part is never smaller in absolute value than a later one;
\* 1000 three ways is [334,333,333] and -1000 is [-334,-333,-333].
SplitEarliestParts ==
    IsSplit =>
        LET n        == call.args[1]
            amount   == call.recv.amount
            base     == TruncDiv(amount, n)
            leftover == Abs(amount) % n
            step     == IF amount >= 0 THEN 1 ELSE -1
            parts    == AmountsOf(ret.ms)
        IN  /\ ret.status = "ok"
            /\ Len(parts) = n
            /\ \A i \in 1..n :
                  parts[i] = IF i <= leftover THEN base + step ELSE base
            /\ \A i, j \in 1..n : i < j => Abs(parts[i]) >= Abs(parts[j])
            /\ (amount = 1000 /\ n = 3) => parts = <<334, 333, 333>>
            /\ (amount = -1000 /\ n = 3) => parts = <<-334, -333, -333>>

\* the split of -1000 three ways
SplitEarliestPartsWitness ==
    /\ IsSplit
    /\ call.args[1] = 3
    /\ call.recv.amount = -1000
    /\ AmountsOf(ret.ms) = <<-334, -333, -333>>

\* ------------------------------------------------------------------------
\* Allocate
\* ------------------------------------------------------------------------

\* the leftover Allocate computes before its remainder loop: the amount less
\* the (wrapped) total of the calculator's shares
LeftoverOf(recv, rs) ==
    LET shares == [i \in 1..Len(rs) |-> allocate(recv.amount, rs[i], SumSeq(rs))]
    IN  Wrap(recv.amount - Wrap(SumSeq(shares)))

\* C2: for every amount and every non-empty list of non-negative ratios whose
\* sum is positive and at most MaxInt64, Allocate returns without failure and
\* the amounts of the parts sum exactly to the original amount.
AllocateConservation ==
    IsAllocate =>
        /\ ret.status = "ok"
        /\ SumSeq(AmountsOf(ret.ms)) = call.recv.amount

\* C6: when every amount*ratio is representable, part i of Allocate is
\* trunc(amount*r_i/sum) plus one step (the sign of the leftover) for the
\* parts at indices 0..|leftover|-1, where leftover = amount - sum of the
\* truncated parts; 10000 over 50,30,20 is [5000,3000,2000] and 100 over
\* 33,33,33 is [34,33,33].
AllocateParts ==
    (IsAllocate /\ \A i \in 1..Len(call.args) :
                      ProductFits(call.recv.amount, call.args[i])) =>
        LET rs       == call.args
            amount   == call.recv.amount
            sum      == SumSeq(rs)
            share    == [i \in 1..Len(rs) |-> TruncDiv(amount * rs[i], sum)]
            leftover == amount - SumSeq(share)
            parts    == AmountsOf(ret.ms)
        IN  /\ ret.status = "ok"
            /\ Len(parts) = Len(rs)
            /\ \A i \in 1..Len(rs) :
                  parts[i] = share[i] +
                             (IF i <= Abs(leftover) THEN Sign(leftover) ELSE 0)
            /\ (amount = 10000 /\ rs = <<50, 30, 20>>) =>
                  parts = <<5000, 3000, 2000>>
            /\ (amount = 100 /\ rs = <<33, 33, 33>>) => parts = <<34, 33, 33>>

\* the allocation of 100 over 33,33,33, whose first part takes the leftover
AllocatePartsWitness ==
    /\ call.op = "Allocate"
    /\ call.recv.amount = 100
    /\ call.args = <<33, 33, 33>>
    /\ ret.status = "ok"
    /\ AmountsOf(ret.ms) = <<34, 33, 33>>

\* C7: when the leftover has more units than there are parts, the remainder
\* loop wraps back to part 0 and keeps distributing, so Allocate never indexes
\* past the last part and ends with the total conserved.
AllocateWrapsRoundRobin ==
    (IsAllocate /\ Abs(LeftoverOf(call.recv, call.args)) > Len(call.args)) =>
        /\ ret.status = "ok"
        /\ Len(ret.ms) = Len(call.args)
        /\ SumSeq(AmountsOf(ret.ms)) = call.recv.amount

\* ------------------------------------------------------------------------
\* The currency guard
\* ------------------------------------------------------------------------

BinaryOps ==
    {"Equals", "Compare", "GreaterThan", "GreaterThanOrEqual", "LessThan",
     "LessThanOrEqual", "Add", "Subtract"}

OperandOfOtherCurrency ==
    \E i \in 1..Len(call.oms) :
        call.oms[i].currency.Code # call.recv.currency.Code

\* C3: each of Equals, Compare, GreaterThan, GreaterThanOrEqual, LessThan,
\* LessThanOrEqual, Add and Subtract, called with an operand whose currency
\* code differs from the receiver's, returns ErrCurrencyMismatch and leaves
\* the receiver and every operand as they were.
CurrencyGuard ==
    (call.op \in BinaryOps /\ OperandOfOtherCurrency) =>
        /\ ret.status = "error"
        /\ ret.err = ErrCurrencyMismatch
        /\ m = call.recv
        /\ oms = call.oms

\* an Add whose first operand has the receiver's currency and whose second
\* has another one
CurrencyGuardWitness ==
    /\ call.op = "Add"
    /\ Len(call.oms) = 2
    /\ call.oms[1].currency.Code = call.recv.currency.Code
    /\ call.oms[2].currency.Code # call.recv.currency.Code
    /\ ret.err = ErrCurrencyMismatch

\* ------------------------------------------------------------------------
\* round
\* ------------------------------------------------------------------------

\* 10^p and |a| + 10^p are representable
RoundFits(a, p) == Pow10(p) <= MaxInt64 /\ Abs(a) + Pow10(p) <= MaxInt64

\* C8: round with precision 2 maps 1235 to 1240 and 1234 to 1230.
RoundExamples ==
    call.op = "round" =>
        /\ call.args = <<1235, 2>> => ret.i = 1240
        /\ call.args = <<1234, 2>> => ret.i = 1230

\* C9: round is idempotent, round(round(a,p),p) = round(a,p), for every
\* amount a and precision p >= 0 with 10^p and |a|+10^p representable, and
\* so is Money.Round for every currency Fraction, Fraction 0 included.
RoundIdempotent ==
    /\ (call.op = "round" /\ RoundFits(call.args[1], call.args[2])) =>
          round(ret.i, call.args[2]) = ret.i
    /\ (call.op = "Round"
            /\ RoundFits(call.recv.amount, call.recv.currency.Fraction)) =>
          Round(ret.ms[1]).ret.ms[1].amount = ret.ms[1].amount

\* C10: round with precision 0 returns its argument, so Money.Round on a
\* currency with Fraction 0 returns the same amount.
RoundPrecisionZero ==
    /\ (call.op = "round" /\ call.args[2] = 0) => ret.i = call.args[1]
    /\ (call.op = "Round" /\ call.recv.currency.Fraction = 0) =>
          ret.ms[1].amount = call.recv.amount

\* ------------------------------------------------------------------------
\* Add and Subtract over several operands
\* ------------------------------------------------------------------------

\* C11: Add and Subtract whose operand list holds, at any position, a Money
\* of another currency than the receiver's return ErrCurrencyMismatch and
\* no Money at all: never the sum of the operands that did match.
AddSubtractAtomic ==
    (call.op \in {"Add", "Subtract"} /\ OperandOfOtherCurrency) =>
        /\ ret.status = "error"
        /\ ret.err = ErrCurrencyMismatch
        /\ ret.ms = <<>>
        /\ ~ret.self

\* a Subtract whose first operand has another currency and whose second,
\* of a non-zero amount, has the receiver's
AddSubtractAtomicWitness ==
    /\ call.op = "Subtract"
    /\ Len(call.oms) = 2
    /\ call.oms[1].currency.Code # call.recv.currency.Code
    /\ call.oms[2].currency.Code = call.recv.currency.Code
    /\ call.oms[2].amount # 0
    /\ ret.status = "error"
    /\ ret.ms = <<>>

\* ------------------------------------------------------------------------
\* Compare
\* ------------------------------------------------------------------------

\* C12: the integer returned by Compare is always one of -1, 0 and 1; when
\* the operand has the receiver's currency it is 1 for a greater receiver
\* amount, -1 for a smaller one and 0 for equal amounts.
CompareTriState ==
    call.op = "Compare" =>
        /\ ret.i \in {-1, 0, 1}
        /\ call.oms[1].currency.Code = call.recv.currency.Code =>
              /\ ret.status = "ok"
              /\ call.recv.amount > call.oms[1].amount => ret.i = 1
              /\ call.recv.amount < call.oms[1].amount => ret.i = -1
              /\ call.recv.amount = call.oms[1].amount => ret.i = 0

\* ------------------------------------------------------------------------
\* Results are new instances
\* ------------------------------------------------------------------------

\* C13: Add, Subtract, Multiply, Absolute, Negative, Round, Split and
\* Allocate leave the receiver and every operand as they were, and no Money
\* they return is the receiver itself: after the caller scans a value into
\* a returned Money the receiver is still what it was before the call.
ResultsAreNewInstances ==
    /\ call.op \in MoneyOps =>
          /\ m = call.recv
          /\ oms = call.oms
          /\ ~ret.self
    /\ call.op = "ScanResult" => m = call.recv

\* ------------------------------------------------------------------------
\* Currency of the results
\* ------------------------------------------------------------------------

\* C14: every Money returned by Add, Subtract, Multiply, Absolute, Negative
\* and Round, and every part returned by Split and Allocate, carries the
\* currency code of the receiver.
ResultKeepsCurrency ==
    call.op \in MoneyOps =>
        \A i \in 1..Len(ret.ms) :
            ret.ms[i].currency.Code = call.recv.currency.Code

\* an Allocate on a receiver in yen has returned three parts in yen
ResultKeepsCurrencyWitness ==
    /\ call.op = "Allocate"
    /\ call.recv.currency.Code = "JPY"
    /\ Len(ret.ms) = 3
    /\ \A i \in 1..3 : ret.ms[i].currency.Code = "JPY"

\* ------------------------------------------------------------------------
\* Currency identity
\* ------------------------------------------------------------------------

\* the codes of receiver and operand as the call received them
SameCode == call.oms[1].currency.Code = call.recv.currency.Code

\* C15: two Money interoperate exactly when their currency codes, upper-
\* cased by New, are equal strings: SameCurrency is true and a binary
\* operation succeeds if and only if the codes are equal, whether or not the
\* two Currency values are the same object and whatever the letter case
\* given to New (New(x, "usd") and New(y, "USD") interoperate).
CurrencyIdentity ==
    /\ (call.op \in BinaryOps /\ Len(call.oms) = 1) =>
          (ret.status = "ok" <=> SameCode)
    /\ call.op = "SameCurrency" =>
          /\ ret.b <=> SameCode
          /\ \A c1 \in Codes, c2 \in Codes :
                /\ SameCurrency(New(1, c1), New(2, c2))
                      <=> ToUpper(c1) = ToUpper(c2)
                /\ Add(New(1, c1), <<New(2, c2)>>).ret.status = "ok"
                      <=> ToUpper(c1) = ToUpper(c2)
          /\ SameCurrency(New(1, "usd"), New(2, "USD"))

\* SameCurrency answered true for a receiver and an operand of code XTS
\* that hold different Currency values: the receiver was built before the
\* code was registered, the operand after
CurrencyIdentityWitness ==
    /\ call.op = "SameCurrency"
    /\ ret.b
    /\ call.recv.currency.Code = "XTS"
    /\ call.recv.currency # call.oms[1].currency

\* ------------------------------------------------------------------------
\* Split: the count of parts
\* ------------------------------------------------------------------------

\* C16: Split(n) with n <= 0 returns an error and no parts; it returns
\* normally, so no division by n was attempted, and the receiver is as it
\* was.
SplitRejectsNonPositive ==
    (call.op = "Split" /\ call.args[1] <= 0) =>
        /\ ret.status = "error"
        /\ ret.err # nil
        /\ ret.ms = <<>>
        /\ m = call.recv

\* a Split into zero parts of a non-zero amount has returned its error
SplitRejectsNonPositiveWitness ==
    /\ call.op = "Split"
    /\ call.args = <<0>>
    /\ call.recv.amount # 0
    /\ ret.status = "error"

\* ------------------------------------------------------------------------
\* Allocate: validation of the ratios
\* ------------------------------------------------------------------------

ErrNegativeRatio == "negative ratios not allowed"

ErrRatioSumOverflow == "sum of given ratios exceeds max int"

HasNegativeRatio(rs) == \E i \in 1..Len(rs) : rs[i] < 0

\* C17: Allocate whose ratio list holds a negative ratio, at any position
\* and beside any other ratios (also after ratios that already add up to
\* MaxInt64), fails with the negative-ratio error.
AllocateRejectsNegativeRatio ==
    (call.op = "Allocate" /\ HasNegativeRatio(call.args)) =>
        /\ ret.status = "error"
        /\ ret.err = ErrNegativeRatio

\* C18: for a non-empty list of non-negative ratios Allocate fails with the
\* ratio-sum-overflow error exactly when the mathematical sum of the ratios
\* is greater than MaxInt64, and the int64 sum it keeps while it runs over
\* the list is the mathematical sum of the ratios read so far: it never
\* wraps around.
RatioSumOverflowExact ==
    (/\ call.op = "Allocate"
     /\ Len(call.args) > 0
     /\ ~HasNegativeRatio(call.args)) =>
        /\ (ret.status = "error" /\ ret.err = ErrRatioSumOverflow)
              <=> SumSeq(call.args) > MaxInt64
        /\ ret.status = "error" => ret.err = ErrRatioSumOverflow
        /\ \A k \in 1..Len(call.args) :
              LET prefix == SubSeq(call.args, 1, k)
              IN  RatioSum(prefix, 1, 0).err = nil =>
                      RatioSum(prefix, 1, 0).sum = SumSeq(prefix)

\* an Allocate with the ratios MaxInt64 and 1, whose sum is MaxInt64 + 1,
\* has failed with the overflow error
RatioSumOverflowExactWitness ==
    /\ call.op = "Allocate"
    /\ call.args = <<MaxInt64, 1>>
    /\ ret.status = "error"
    /\ ret.err = ErrRatioSumOverflow

\* ------------------------------------------------------------------------
\* Allocate: a ratio sum of zero
\* ------------------------------------------------------------------------

\* C19: when every ratio is 0, Allocate returns without error one part per
\* ratio, each of amount 0, whatever the receiver's amount; nothing of the
\* amount is handed out to the parts.
AllocateZeroRatios ==
    (/\ call.op = "Allocate"
     /\ Len(call.args) > 0
     /\ \A i \in 1..Len(call.args) : call.args[i] = 0) =>
        /\ ret.status = "ok"
        /\ ret.err = nil
        /\ Len(ret.ms) = Len(call.args)
        /\ \A i \in 1..Len(ret.ms) : ret.ms[i].amount = 0

\* an Allocate of the amount 1000 over the ratios 0, 0, 0 has returned
AllocateZeroRatiosWitness ==
    /\ call.op = "Allocate"
    /\ call.args = <<0, 0, 0>>
    /\ call.recv.amount = 1000
    /\ ret.status = "ok"
    /\ Len(ret.ms) = 3

\* ------------------------------------------------------------------------
\* Multiply
\* ------------------------------------------------------------------------

\* a times every multiplier in turn, reduced to int64 after each step; the
\* multipliers drawn keep each step within the range of the integers used
RECURSIVE WrapProduct(_, _)
WrapProduct(a, muls) ==
    IF Len(muls) = 0 THEN a
    ELSE WrapProduct(Wrap(a * Head(muls)), Tail(muls))

\* C20: Multiply with one multiplier or more returns one Money whose amount
\* is the receiver's amount times the product of all the multipliers,
\* reduced to int64; with no multiplier it panics and returns neither a
\* Money nor an error.
MultiplyProduct ==
    call.op = "Multiply" =>
        IF Len(call.args) = 0
        THEN /\ ret.status = "panic"
             /\ ret.ms = <<>>
             /\ ret.err = nil
        ELSE /\ ret.status = "ok"
             /\ Len(ret.ms) = 1
             /\ ret.ms[1].amount = WrapProduct(call.recv.amount, call.args)

\* MaxInt64 multiplied by 2 and 3 has returned: the product leaves int64
MultiplyProductWitness ==
    /\ call.op = "Multiply"
    /\ call.args = <<2, 3>>
    /\ call.recv.amount = MaxInt64
    /\ ret.status = "ok"
    /\ ret.ms[1].amount = -6

\* ------------------------------------------------------------------------
\* Negative and Absolute
\* ------------------------------------------------------------------------

\* C21: Negative of a Money whose amount is already negative returns a
\* Money whose amount is still negative, the same amount (the Negative of
\* -500 is -500).
NegativeIdempotent ==
    (call.op = "Negative" /\ call.recv.amount < 0) =>
        /\ ret.status = "ok"
        /\ ret.ms[1].amount < 0
        /\ ret.ms[1].amount = call.recv.amount

\* ------------------------------------------------------------------------
\* divide and modulus by zero
\* ------------------------------------------------------------------------

DivisorIsZero == call.op \in {"divide", "modulus"} /\ call.args[2] = 0

\* C22: divide and modulus called with the divisor 0 fail with a division-
\* by-zero error that is returned to the caller; they do not panic.
DivisionByZeroIsError ==
    DivisorIsZero =>
        /\ ret.status = "error"
        /\ ret.err # nil

\* C22, as the code has it: divide and modulus called with the divisor 0
\* panic and return nothing, neither a value nor an error; with any other
\* divisor they return normally.
DivisionByZeroPanics ==
    call.op \in {"divide", "modulus"} =>
        IF call.args[2] = 0
        THEN ret.status = "panic" /\ ret.err = nil
        ELSE ret.status = "ok" /\ ret.err = nil

\* modulus of 7 by 0 has panicked
DivisionByZeroPanicsWitness ==
    /\ call.op = "modulus"
    /\ call.args = <<7, 0>>
    /\ ret.status = "panic"

\* ------------------------------------------------------------------------
\* The registry and concurrent callers
\* ------------------------------------------------------------------------

\* C23: Add, Subtract, Multiply, Round, Split and Allocate on existing
\* Money never read the currency registry, so that a call of one of them
\* while another goroutine is inside AddCurrency is no data race on the
\* registry map and cannot be stopped by the runtime.
RegistryReadOnlyByNew ==
    call.op \in {"Add", "Subtract", "Multiply", "Round", "Split", "Allocate"}
        => /\ ~ret.reads
           /\ ret.status # "fatal"

\* the codes registered by AddCurrency, each as the string it was given;
\* the registry holds under it the Currency of the latest such call
AddedCodes == DOMAIN currencies \ DOMAIN BuiltinCurrencies

\* C24: once AddCurrency has been called with a code, whatever the string,
\* GetCurrency of that same string returns a currency with exactly the
\* fields that call gave, also after AddCurrency calls for other codes.
GetCurrencyAfterAddCurrency ==
    (call.op = "GetCurrency" /\ call.args[1] \in AddedCodes) =>
        /\ ret.status = "ok"
        /\ ret.b
        /\ ret.cur = currencies[call.args[1]]
        /\ ret.cur.Code = call.args[1]

\* ------------------------------------------------------------------------
\* Scan
\* ------------------------------------------------------------------------

\* the value scanned is a string of exactly two non-empty parts joined by
\* the separator: an int64 numeral, then a code the registry resolves
WellFormedSource(src) ==
    /\ src.type = "string"
    /\ Len(src.s) = 3
    /\ src.s[2] = DBMoneyValueSeparator
    /\ src.s[1] # DBMoneyValueSeparator
    /\ src.s[3] # DBMoneyValueSeparator
    /\ ParseInt(src.s[1]).err = nil
    /\ ToUpper(src.s[3]) \in DOMAIN currencies

AllocateLeftoverBound ==
    (IsAllocate /\ \A i \in 1..Len(call.args) :
                      ProductFits(call.recv.amount, call.args[i])) =>
        LET rs       == call.args
            amount   == call.recv.amount
            share    == [i \in 1..Len(rs) |->
                            TruncDiv(amount * rs[i], SumSeq(rs))]
            leftover == amount - SumSeq(share)
        IN  /\ Abs(leftover) < Len(rs)
            /\ LeftoverOf(call.recv, rs) = leftover
            /\ ret.status = "ok"
            /\ Len(ret.ms) = Len(rs)

\* 5 allocated over 1, 1, 1: the leftover is 2, one less than the number of
\* ratios, and goes to the first two parts
AllocateLeftoverBoundWitness ==
    /\ call.op = "Allocate"
    /\ call.recv.amount = 5
    /\ call.args = <<1, 1, 1>>
    /\ ret.status = "ok"
    /\ AmountsOf(ret.ms) = <<2, 2, 1>>

\* ------------------------------------------------------------------------
\* round with a precision of one digit or more
\* ------------------------------------------------------------------------

\* r is the multiple of 10^p nearest to a, the one farther from zero when
\* two are equally near
NearestMultiple(r, a, p) ==
    /\ Abs(r) % Pow10(p) = 0
    /\ 2 * Abs(r - a) <= Pow10(p)
    /\ 2 * Abs(r - a) = Pow10(p) => Abs(r) > Abs(a)

AddSubtractAmounts ==
    (call.op \in {"Add", "Subtract"} /\ ~OperandOfOtherCurrency) =>
        LET sum == SumSeq(AmountsOf(call.oms))
        IN  /\ ret.status = "ok"
            /\ Len(ret.ms) = 1
            /\ call.op = "Add" =>
                  /\ ret.ms[1].amount = Wrap(call.recv.amount + sum)
                  /\ Subtract(ret.ms[1], call.oms).ret.ms[1].amount
                        = call.recv.amount
            /\ call.op = "Subtract" =>
                  /\ ret.ms[1].amount = Wrap(call.recv.amount - sum)
                  /\ Add(ret.ms[1], call.oms).ret.ms[1].amount
                        = call.recv.amount

\* MaxInt64 plus 5 and MaxInt64 has wrapped around
AddSubtractAmountsWitness ==
    /\ call.op = "Add"
    /\ call.recv.amount = MaxInt64
    /\ AmountsOf(call.oms) = <<5, MaxInt64>>
    /\ ret.status = "ok"
    /\ ret.ms[1].amount = 3

\* ------------------------------------------------------------------------
\* Allocate: parties of ratio 0
\* ------------------------------------------------------------------------

\* an Allocate over ratios of positive sum that has returned its parts
AllocateReturned == IsAllocate /\ ret.status = "ok"

\* C29: in an Allocate with a positive ratio sum a party whose ratio is 0
\* receives the amount 0: no unit of the leftover goes to it.
ZeroRatioPartyGetsNothing ==
    AllocateReturned =>
        \A i \in 1..Len(call.args) :
            call.args[i] = 0 => ret.ms[i].amount = 0

\* C29, as the code has it: a party whose ratio is 0 has the share 0, and
\* the leftover goes one unit each to the first |leftover| parties whatever
\* their ratios; so a party of ratio 0 ends with one unit (+1 or -1, the
\* sign of the leftover) when its index is below |leftover| and with 0
\* otherwise.
ZeroRatioPartyGetsLeftoverUnit ==
    AllocateReturned =>
        LET lo == LeftoverOf(call.recv, call.args)
        IN  \A i \in 1..Len(call.args) :
                call.args[i] = 0 =>
                    ret.ms[i].amount = (IF i <= Abs(lo) THEN Sign(lo) ELSE 0)

\* 5 allocated over 0, 3, 3: the one leftover unit has gone to the first
\* party, whose ratio is 0
ZeroRatioPartyGetsLeftoverUnitWitness ==
    /\ call.op = "Allocate"
    /\ call.recv.amount = 5
    /\ call.args = <<0, 3, 3>>
    /\ ret.status = "ok"
    /\ AmountsOf(ret.ms) = <<1, 2, 2>>

\* ------------------------------------------------------------------------
\* Absolute
\* ------------------------------------------------------------------------

\* C30: for every int64 amount, MinInt64 included, Absolute returns a Money
\* whose amount is not negative and is the mathematical absolute value of
\* the receiver's amount.
AbsoluteIsNonNegative ==
    call.op = "Absolute" =>
        /\ ret.status = "ok"
        /\ ret.ms[1].amount >= 0
        /\ ret.ms[1].amount = Abs(call.recv.amount)

====
